---- MODULE Spec2Model ----
(***************************************************************************)
(* Model of backend/analysis.py: the tokenizer, the two inverted indexes,  *)
(* the term statistics (idf, document norms), boolean search, the          *)
(* term-at-a-time scorer, the cosine ranker and get_doc_rankings.          *)
(*                                                                         *)
(* Representation.                                                         *)
(*  - A text is a sequence of one-character strings over Chars.            *)
(*  - A Python dict is a sequence of <<key, value>> pairs in insertion     *)
(*    order (dicts iterate in insertion order); HasKey/Get/Put are its     *)
(*    operations.                                                          *)
(*  - Document ids are the Python ids 0..n-1; sequences are 1-based, so    *)
(*    document id d is doc_lst[d+1].                                       *)
(*  - list(set(tokens)) iterates in hash order, which the program does not *)
(*    control: set_order holds the order of this process, chosen freely    *)
(*    in Init.                                                             *)
(*  - Floats: an idf value is held as floor(10*log2(n/(1+df))) (exact at   *)
(*    0, sign-preserving for n < 14); every other number is computed from  *)
(*    idf values by +, * exactly as the code does.  math.sqrt is kept      *)
(*    symbolic: a norm is held as its radicand (doc_norms[d] is the sum    *)
(*    of squares, query_norm_m is the code's own variable before sqrt),    *)
(*    and a cosine score is the record of numerator and radicands, with    *)
(*    the IEEE outcome of the division (finite, nan, inf).                 *)
(***************************************************************************)
EXTENDS Integers, Sequences, FiniteSets, TLC

\* Bounds of the explored inputs: documents per collection, characters per
\* collection, characters per query.
MaxDocs == 3
MaxChars == 4
MaxQueryLen == 3

\* Bounds of the collections of SpecSmall.
SmallMaxDocs == 2
SmallMaxChars == 3

\* min_df default of compute_idf.
DefaultMinDf == 10

\* A lowercase letter, an uppercase letter and a non-letter.
Chars == {"a", "B", " "}

RECURSIVE TextsOfLen(_)
TextsOfLen(m) ==
  IF m = 0 THEN {<< >>}
  ELSE {Append(t, c) : t \in TextsOfLen(m - 1), c \in Chars}

Texts(k) == UNION {TextsOfLen(m) : m \in 0..k}

RECURSIVE Colls(_, _)
Colls(n, budget) ==
  IF n = 0 THEN {<< >>}
  ELSE UNION {{<<t>> \o r : r \in Colls(n - 1, budget - Len(t))} : t \in Texts(budget)}

\* Every collection of at most MaxDocs texts holding at most MaxChars characters.
Collections == UNION {Colls(n, MaxChars) : n \in 0..MaxDocs}

SmallCollections == UNION {Colls(n, SmallMaxChars) : n \in 0..SmallMaxDocs}

Queries == Texts(MaxQueryLen)

\* (min_df, max_df_ratio) pairs passed to compute_idf: the arguments of
\* get_doc_rankings (0, 1) and the defaults (10, 0.95).  A ratio is <<num, den>>.
IdfParams == {<<0, <<1, 1>> >>, <<DefaultMinDf, <<19, 20>> >>}

--------------------------------------------------------------------------
\* Sequences, sets and Python dicts

ToSet(s) == {s[i] : i \in 1..Len(s)}

Count(s, x) == Cardinality({i \in 1..Len(s) : s[i] = x})

Reverse(s) == [i \in 1..Len(s) |-> s[Len(s) + 1 - i]]

Perms(S) ==
  {p \in [1..Cardinality(S) -> S] :
     \A i, j \in 1..Cardinality(S) : i # j => p[i] # p[j]}

HasKey(d, k) == \E i \in 1..Len(d) : d[i][1] = k

Get(d, k) == d[CHOOSE i \in 1..Len(d) : d[i][1] = k][2]

Put(d, k, v) ==
  IF HasKey(d, k)
  THEN [i \in 1..Len(d) |-> IF d[i][1] = k THEN <<k, v>> ELSE d[i]]
  ELSE Append(d, <<k, v>>)

Keys(d) == {d[i][1] : i \in 1..Len(d)}

RECURSIVE SortedSeq(_)
SortedSeq(S) ==
  IF S = {} THEN << >>
  ELSE LET m == CHOOSE x \in S : \A y \in S : x <= y
       IN <<m>> \o SortedSeq(S \ {m})

--------------------------------------------------------------------------
\* Tokenizer

Lower(c) == IF c = "B" THEN "b" ELSE c

lower(text) == [i \in 1..Len(text) |-> Lower(text[i])]

IsLetter(c) == c \in {"a", "b"}

\* re.findall(r'[a-z]+', s): the maximal runs of letters, left to right.
RECURSIVE findall(_, _, _, _)
findall(s, i, cur, acc) ==
  IF i > Len(s) THEN (IF cur # << >> THEN Append(acc, cur) ELSE acc)
  ELSE IF IsLetter(s[i]) THEN findall(s, i + 1, Append(cur, s[i]), acc)
  ELSE findall(s, i + 1, << >>, IF cur # << >> THEN Append(acc, cur) ELSE acc)

tokenize(text) == findall(lower(text), 1, << >>, << >>)

\* The orders list(set(tokenize(doc))) may take, one per document; equal token
\* lists build equal sets and iterate alike.
SetOrderings(docs) ==
  LET n == Len(docs)
      all == UNION {Perms(ToSet(tokenize(docs[i]))) : i \in 1..n}
  IN {f \in [1..n -> all] :
        /\ \A i \in 1..n : /\ Len(f[i]) = Cardinality(ToSet(tokenize(docs[i])))
                           /\ ToSet(f[i]) = ToSet(tokenize(docs[i]))
        /\ \A i, j \in 1..n : tokenize(docs[i]) = tokenize(docs[j]) => f[i] = f[j]}

--------------------------------------------------------------------------
\* Collection indexer

RECURSIVE doc_inv_loop(_, _, _)
doc_inv_loop(inv_idx, docs, i) ==
  IF i > Len(docs) THEN inv_idx
  ELSE doc_inv_loop(Put(inv_idx, docs[i], i - 1), docs, i + 1)

build_doc_inverted_index(docs) == doc_inv_loop(<< >>, docs, 1)

RECURSIVE bool_tok_loop(_, _, _, _)
bool_tok_loop(idx, toks, j, doc_idx) ==
  IF j > Len(toks) THEN idx
  ELSE LET tok == toks[j]
           nxt == IF HasKey(idx, tok)
                  THEN Put(idx, tok, Append(Get(idx, tok), doc_idx))
                  ELSE Put(idx, tok, <<doc_idx>>)
       IN bool_tok_loop(nxt, toks, j + 1, doc_idx)

RECURSIVE bool_doc_loop(_, _, _, _, _)
bool_doc_loop(idx, docs, i, doc_inv_idx, order) ==
  IF i > Len(docs) THEN idx
  ELSE bool_doc_loop(bool_tok_loop(idx, order[i], 1, Get(doc_inv_idx, docs[i])),
                     docs, i + 1, doc_inv_idx, order)

build_token_inverted_index(docs, doc_inv_idx, order) ==
  bool_doc_loop(<< >>, docs, 1, doc_inv_idx, order)

RECURSIVE freq_tok_loop(_, _, _, _, _)
freq_tok_loop(idx, toks, j, doc_idx, doc_tokenized) ==
  IF j > Len(toks) THEN idx
  ELSE LET tok == toks[j]
           entry == <<doc_idx, Count(doc_tokenized, tok)>>
           nxt == IF HasKey(idx, tok)
                  THEN Put(idx, tok, Append(Get(idx, tok), entry))
                  ELSE Put(idx, tok, <<entry>>)
       IN freq_tok_loop(nxt, toks, j + 1, doc_idx, doc_tokenized)

RECURSIVE freq_doc_loop(_, _, _, _, _)
freq_doc_loop(idx, docs, i, doc_inv_idx, order) ==
  IF i > Len(docs) THEN idx
  ELSE freq_doc_loop(freq_tok_loop(idx, order[i], 1, Get(doc_inv_idx, docs[i]),
                                   tokenize(docs[i])),
                     docs, i + 1, doc_inv_idx, order)

build_token_inverted_index_with_freq(docs, doc_inv_idx, order) ==
  freq_doc_loop(<< >>, docs, 1, doc_inv_idx, order)

--------------------------------------------------------------------------
\* Term statistics

RECURSIVE Pow(_, _)
Pow(b, e) == IF e = 0 THEN 1 ELSE b * Pow(b, e - 1)

\* The largest k >= 0 with 2^k * lo <= hi (lo <= hi).
RECURSIVE FloorLog2(_, _, _)
FloorLog2(hi, lo, k) == IF 2 * lo <= hi THEN FloorLog2(hi, 2 * lo, k + 1) ELSE k

\* The smallest k >= 0 with 2^k * lo >= hi.
RECURSIVE CeilLog2(_, _, _)
CeilLog2(hi, lo, k) == IF lo >= hi THEN k ELSE CeilLog2(hi, 2 * lo, k + 1)

\* math.log(n / d, 2) in tenths, rounded down: floor(10 * log2(n / d)),
\* computed as floor(log2(n^10 / d^10)).
log2_tenths(n, d) ==
  LET N == Pow(n, 10)
      D == Pow(d, 10)
  IN IF N >= D THEN FloorLog2(N, D, 0) ELSE 0 - CeilLog2(D, N, 0)

RECURSIVE idf_loop(_, _, _, _, _, _)
idf_loop(idf_dict, inv_idx, i, n_docs, min_df, max_df_ratio) ==
  IF i > Len(inv_idx) THEN idf_dict
  ELSE LET term == inv_idx[i][1]
           df == Len(inv_idx[i][2])
           keep == /\ df >= min_df
                   /\ df * max_df_ratio[2] < max_df_ratio[1] * n_docs
           nxt == IF keep THEN Put(idf_dict, term, log2_tenths(n_docs, 1 + df))
                  ELSE idf_dict
       IN idf_loop(nxt, inv_idx, i + 1, n_docs, min_df, max_df_ratio)

compute_idf(inv_idx, n_docs, min_df, max_df_ratio) ==
  idf_loop(<< >>, inv_idx, 1, n_docs, min_df, max_df_ratio)

RECURSIVE norms_posting_loop(_, _, _, _)
norms_posting_loop(doc_dict, postings, j, idf_val) ==
  IF j > Len(postings) THEN doc_dict
  ELSE LET doc_id == postings[j][1]
           tf == postings[j][2]
           doc_words == IF HasKey(doc_dict, doc_id) THEN Get(doc_dict, doc_id) ELSE << >>
       IN norms_posting_loop(Put(doc_dict, doc_id, Append(doc_words, <<tf, idf_val>>)),
                             postings, j + 1, idf_val)

RECURSIVE norms_word_loop(_, _, _, _)
norms_word_loop(doc_dict, index, idf_tab, i) ==
  IF i > Len(idf_tab) THEN doc_dict
  ELSE LET word == idf_tab[i][1]
           postings == IF HasKey(index, word) THEN Get(index, word) ELSE << >>
       IN norms_word_loop(norms_posting_loop(doc_dict, postings, 1, idf_tab[i][2]),
                          index, idf_tab, i + 1)

RECURSIVE norm_sum(_, _)
norm_sum(doc_words, j) ==
  IF j > Len(doc_words) THEN 0
  ELSE (doc_words[j][1] * doc_words[j][2]) * (doc_words[j][1] * doc_words[j][2])
       + norm_sum(doc_words, j + 1)

\* norms_array as the sequence of radicands: entry d+1 is norm_sum of document d,
\* of which the code stores math.sqrt.
compute_doc_norms(index, idf_tab, n_docs) ==
  LET doc_dict == norms_word_loop(<< >>, index, idf_tab, 1)
  IN [k \in 1..n_docs |->
        norm_sum(IF HasKey(doc_dict, k - 1) THEN Get(doc_dict, k - 1) ELSE << >>, 1)]

--------------------------------------------------------------------------
\* Boolean matcher

RECURSIVE boolean_loop(_, _, _, _)
boolean_loop(results, query_tok, j, token_idx) ==
  IF j > Len(query_tok) THEN SortedSeq(results)
  ELSE IF ~HasKey(token_idx, query_tok[j]) THEN << >>
  ELSE boolean_loop(results \cap ToSet(Get(token_idx, query_tok[j])),
                    query_tok, j + 1, token_idx)

\* A variant that passes over a query token missing from the index.
RECURSIVE boolean_loop_skip_missing(_, _, _, _)
boolean_loop_skip_missing(results, query_tok, j, token_idx) ==
  IF j > Len(query_tok) THEN SortedSeq(results)
  ELSE IF ~HasKey(token_idx, query_tok[j])
       THEN boolean_loop_skip_missing(results, query_tok, j + 1, token_idx)
  ELSE boolean_loop_skip_missing(results \cap ToSet(Get(token_idx, query_tok[j])),
                                 query_tok, j + 1, token_idx)

boolean_search_skip_missing(q, token_idx, num_docs) ==
  boolean_loop_skip_missing(0..(num_docs - 1), tokenize(q), 1, token_idx)

\* list(results) of a set of small ints: CPython iterates it in ascending order.
boolean_search(q, token_idx, num_docs) ==
  boolean_loop(0..(num_docs - 1), tokenize(q), 1, token_idx)

--------------------------------------------------------------------------
\* Scorer

\* result[w] = the number of occurrences of w; only lookups and membership
\* tests are made on it, so it is held as a function.
word_counts(str_query) ==
  LET tokenized == tokenize(str_query)
  IN [tok \in ToSet(tokenized) |-> Count(tokenized, tok)]

\* doc_scores after the postings of one word; a missing idf[word] raises KeyError.
RECURSIVE dot_posting_loop(_, _, _, _, _)
dot_posting_loop(acc, word_docs, j, qtf, idf_val) ==
  IF j > Len(word_docs) THEN acc
  ELSE LET doc == word_docs[j][1]
           dot == (word_docs[j][2] * qtf) * (idf_val * idf_val)
           old == IF HasKey(acc, doc) THEN Get(acc, doc) ELSE 0
       IN dot_posting_loop(Put(acc, doc, old + dot), word_docs, j + 1, qtf, idf_val)

RECURSIVE dot_word_loop(_, _, _, _, _)
dot_word_loop(acc, query_word_counts, index, idf_tab, i) ==
  IF i > Len(index) THEN [status |-> "ok", scores |-> acc]
  ELSE LET word == index[i][1]
           word_docs == index[i][2]
       IN IF word \in DOMAIN query_word_counts /\ word_docs # << >>
          THEN IF ~HasKey(idf_tab, word)
               THEN [status |-> "KeyError", scores |-> << >>]
               ELSE dot_word_loop(dot_posting_loop(acc, word_docs, 1,
                                                   query_word_counts[word],
                                                   Get(idf_tab, word)),
                                  query_word_counts, index, idf_tab, i + 1)
          ELSE dot_word_loop(acc, query_word_counts, index, idf_tab, i + 1)

accumulate_dot_scores(query_word_counts, index, idf_tab) ==
  dot_word_loop(<< >>, query_word_counts, index, idf_tab, 1)

--------------------------------------------------------------------------
\* Ranker

\* num / (math.sqrt(qn2) * sqrt_dn) where sqrt_dn is a numpy float whose square
\* is dn2: numpy division, so a zero denominator gives nan (0/0) or inf (x/0,
\* x > 0) instead of raising.  Numerators are sums of products of counts and
\* squares, never negative.
cos_sim(num, qn2, dn2) == [num |-> num, qn2 |-> qn2, dn2 |-> dn2]

ScoreKind(s) ==
  IF s.qn2 = 0 \/ s.dn2 = 0
  THEN (IF s.num = 0 THEN "nan" ELSE "inf")
  ELSE "finite"

\* x < y on the floats of one ranking (they share qn2): for finite scores
\* a/sqrt(A) < b/sqrt(B) iff a*a*B < b*b*A.
ScoreLT(x, y) ==
  IF ScoreKind(x) = "nan" \/ ScoreKind(y) = "nan" THEN FALSE
  ELSE IF ScoreKind(x) = "inf" THEN FALSE
  ELSE IF ScoreKind(y) = "inf" THEN TRUE
  ELSE (x.num * x.num) * y.dn2 < (y.num * y.num) * x.dn2

\* The key of sorted(..., key=lambda x: x[0]) compared with <.
EntryLT(e1, e2) == ScoreLT(e1.score, e2.score)

\* CPython's list sort on a short list (fewer than 64 items: one natural run
\* found by count_run, the rest inserted by binarysort).
RECURSIVE run_scan(_, _, _)
run_scan(s, i, descending) ==
  IF i > Len(s) THEN Len(s)
  ELSE IF EntryLT(s[i], s[i - 1]) = descending THEN run_scan(s, i + 1, descending)
  ELSE i - 1

count_run(s) ==
  IF Len(s) < 2 THEN [n |-> Len(s), descending |-> FALSE]
  ELSE LET descending == EntryLT(s[2], s[1])
       IN [n |-> run_scan(s, 3, descending), descending |-> descending]

RECURSIVE bisect(_, _, _, _)
bisect(s, pivot, l, r) ==
  IF l >= r THEN l
  ELSE LET p == l + ((r - l) \div 2)
       IN IF EntryLT(pivot, s[p]) THEN bisect(s, pivot, l, p)
          ELSE bisect(s, pivot, p + 1, r)

RECURSIVE binarysort(_, _)
binarysort(s, start) ==
  IF start > Len(s) THEN s
  ELSE LET pivot == s[start]
           l == bisect(s, pivot, 1, start)
           moved == [i \in 1..Len(s) |->
                       IF i < l THEN s[i]
                       ELSE IF i = l THEN pivot
                       ELSE IF i <= start THEN s[i - 1]
                       ELSE s[i]]
       IN binarysort(moved, start + 1)

list_sort(s) ==
  IF Len(s) < 2 THEN s
  ELSE LET run == count_run(s)
           s1 == IF run.descending
                 THEN [i \in 1..Len(s) |-> IF i <= run.n THEN s[run.n + 1 - i] ELSE s[i]]
                 ELSE s
       IN binarysort(s1, run.n + 1)

\* sorted(results, key=..., reverse=True): reverse, stable ascending sort, reverse.
sorted_reverse(results) == Reverse(list_sort(Reverse(results)))

RECURSIVE query_norm_loop(_, _, _, _)
query_norm_loop(tokens, j, query_w_counts, idf_tab) ==
  IF j > Len(tokens) THEN 0
  ELSE (IF HasKey(idf_tab, tokens[j])
        THEN (Get(idf_tab, tokens[j]) * query_w_counts[tokens[j]])
             * (Get(idf_tab, tokens[j]) * query_w_counts[tokens[j]])
        ELSE 0)
       + query_norm_loop(tokens, j + 1, query_w_counts, idf_tab)

index_search(q, index, idf_tab, norms) ==
  LET tokens == tokenize(lower(q))
      query_w_counts == [tok \in ToSet(tokens) |-> Count(tokens, tok)]
      query_norm_m == query_norm_loop(tokens, 1, query_w_counts, idf_tab)
      num_vals == accumulate_dot_scores(query_w_counts, index, idf_tab)
      results == [k \in 1..Len(num_vals.scores) |->
                    [score |-> cos_sim(num_vals.scores[k][2], query_norm_m,
                                       norms[num_vals.scores[k][1] + 1]),
                     doc |-> num_vals.scores[k][1]]]
  IN IF num_vals.status = "KeyError"
     THEN [status |-> "KeyError", results |-> << >>, query_norm_m |-> query_norm_m]
     ELSE [status |-> "ok", results |-> sorted_reverse(results),
           query_norm_m |-> query_norm_m]

get_doc_rankings(q, docs, num_docs, order) ==
  LET query_l == lower(q)
      doc_inv_idx == build_doc_inverted_index(docs)
      tok_inv_idx == build_token_inverted_index_with_freq(docs, doc_inv_idx, order)
      idf_list == compute_idf(tok_inv_idx, Len(docs), 0, <<1, 1>>)
      norms == compute_doc_norms(tok_inv_idx, idf_list, Len(docs))
      found == index_search(query_l, tok_inv_idx, idf_list, norms)
      top == SubSeq(found.results, 1,
                    IF num_docs < Len(found.results) THEN num_docs ELSE Len(found.results))
  IN [status |-> found.status,
      ids |-> [k \in 1..Len(top) |-> top[k].doc]]

--------------------------------------------------------------------------
\* The program: a collection is loaded, indexed once, then queried.

VARIABLES
  doc_lst,        \* the collection, in order
  set_order,      \* set_order[i]: the order list(set(tokenize(doc_lst[i]))) takes
  phase,          \* "loaded" | "built"; the index is built once
  idf_params,     \* <<min_df, max_df_ratio>> the idf table was built with
  token_inv_idx,  \* the boolean index: term -> [doc id, ...]
  inv_idx,        \* the inverted index: term -> [(doc id, tf), ...]
  idf,            \* the idf table: term -> idf
  doc_norms,      \* the document norms (radicands)
  op,             \* the call whose result the caller holds, or "none"
  query,          \* its query
  top_n,          \* its num_docs (get_doc_rankings)
  status,         \* "ok" | "KeyError": how the call ended
  ids,            \* the ids returned (boolean_search, get_doc_rankings)
  doc_scores,     \* the dict returned (accumulate_dot_scores)
  results,        \* the list returned (index_search)
  query_norm_m    \* index_search's query_norm_m

vars == <<doc_lst, set_order, phase, idf_params, token_inv_idx, inv_idx, idf,
          doc_norms, op, query, top_n, status, ids, doc_scores, results,
          query_norm_m>>

index_vars == <<doc_lst, set_order, phase, idf_params, token_inv_idx, inv_idx,
                idf, doc_norms>>

\* num_docs of get_doc_rankings: one that can cut the ranking, one that cannot.
TopNs == {1, MaxDocs}

InitFrom(collections) ==
  /\ doc_lst \in collections
  /\ set_order \in SetOrderings(doc_lst)
  /\ phase = "loaded"
  /\ idf_params = << >>
  /\ token_inv_idx = << >>
  /\ inv_idx = << >>
  /\ idf = << >>
  /\ doc_norms = << >>
  /\ op = "none"
  /\ query = << >>
  /\ top_n = 0
  /\ status = "ok"
  /\ ids = << >>
  /\ doc_scores = << >>
  /\ results = << >>
  /\ query_norm_m = 0

Init == InitFrom(Collections)

SmallInit == InitFrom(SmallCollections)

\* The single indexing pass: both indexes, the idf table and the norms.
BuildIndex(min_df, max_df_ratio) ==
  /\ phase = "loaded"
  /\ op = "none"
  /\ LET doc_inv_idx == build_doc_inverted_index(doc_lst)
         index == build_token_inverted_index_with_freq(doc_lst, doc_inv_idx, set_order)
         idf_tab == compute_idf(index, Len(doc_lst), min_df, max_df_ratio)
     IN /\ token_inv_idx' = build_token_inverted_index(doc_lst, doc_inv_idx, set_order)
        /\ inv_idx' = index
        /\ idf' = idf_tab
        /\ doc_norms' = compute_doc_norms(index, idf_tab, Len(doc_lst))
  /\ phase' = "built"
  /\ idf_params' = <<min_df, max_df_ratio>>
  /\ op' = "none"
  /\ query' = << >>
  /\ top_n' = 0
  /\ status' = "ok"
  /\ ids' = << >>
  /\ doc_scores' = << >>
  /\ results' = << >>
  /\ query_norm_m' = 0
  /\ UNCHANGED <<doc_lst, set_order>>

\* A variant that narrows the index's own posting lists: every query term's
\* list is left holding the result.
BooleanSearchInPlace(q) ==
  /\ phase = "built"
  /\ op = "none"
  /\ op' = "boolean_search"
  /\ query' = q
  /\ ids' = boolean_search(q, token_inv_idx, Len(doc_lst))
  /\ token_inv_idx' =
       [i \in 1..Len(token_inv_idx) |->
          IF token_inv_idx[i][1] \in ToSet(tokenize(q))
          THEN <<token_inv_idx[i][1], boolean_search(q, token_inv_idx, Len(doc_lst))>>
          ELSE token_inv_idx[i]]
  /\ status' = "ok"
  /\ top_n' = 0
  /\ doc_scores' = << >>
  /\ results' = << >>
  /\ query_norm_m' = 0
  /\ UNCHANGED <<doc_lst, set_order, phase, idf_params, inv_idx, idf, doc_norms>>

BooleanSearch(q) ==
  /\ phase = "built"
  /\ op = "none"
  /\ op' = "boolean_search"
  /\ query' = q
  /\ ids' = boolean_search(q, token_inv_idx, Len(doc_lst))
  /\ status' = "ok"
  /\ top_n' = 0
  /\ doc_scores' = << >>
  /\ results' = << >>
  /\ query_norm_m' = 0
  /\ UNCHANGED index_vars

AccumulateDotScores(q) ==
  /\ phase = "built"
  /\ op = "none"
  /\ LET r == accumulate_dot_scores(word_counts(q), inv_idx, idf)
     IN /\ status' = r.status
        /\ doc_scores' = r.scores
  /\ op' = "accumulate_dot_scores"
  /\ query' = q
  /\ top_n' = 0
  /\ ids' = << >>
  /\ results' = << >>
  /\ query_norm_m' = 0
  /\ UNCHANGED index_vars

IndexSearch(q) ==
  /\ phase = "built"
  /\ op = "none"
  /\ LET r == index_search(q, inv_idx, idf, doc_norms)
     IN /\ status' = r.status
        /\ results' = r.results
        /\ query_norm_m' = r.query_norm_m
  /\ op' = "index_search"
  /\ query' = q
  /\ top_n' = 0
  /\ ids' = << >>
  /\ doc_scores' = << >>
  /\ UNCHANGED index_vars

\* The end-to-end path: it builds its own index and statistics from doc_lst.
GetDocRankings(q, num_docs) ==
  /\ phase = "loaded"
  /\ op = "none"
  /\ LET r == get_doc_rankings(q, doc_lst, num_docs, set_order)
     IN /\ status' = r.status
        /\ ids' = r.ids
  /\ op' = "get_doc_rankings"
  /\ query' = q
  /\ top_n' = num_docs
  /\ doc_scores' = << >>
  /\ results' = << >>
  /\ query_norm_m' = 0
  /\ UNCHANGED index_vars

\* The call has returned and the caller drops its result; the next call starts
\* from whatever the calls before it left behind.
Return ==
  /\ op # "none"
  /\ op' = "none"
  /\ query' = << >>
  /\ top_n' = 0
  /\ status' = "ok"
  /\ ids' = << >>
  /\ doc_scores' = << >>
  /\ results' = << >>
  /\ query_norm_m' = 0
  /\ UNCHANGED index_vars

Next ==
  \/ \E p \in IdfParams : BuildIndex(p[1], p[2])
  \/ \E q \in Queries : BooleanSearch(q)
  \/ \E q \in Queries : AccumulateDotScores(q)
  \/ \E q \in Queries : IndexSearch(q)
  \/ \E q \in Queries, k \in TopNs : GetDocRankings(q, k)
  \/ Return

Spec == Init /\ [][Next]_vars

\* The same program on the smaller collections.
SpecSmall == SmallInit /\ [][Next]_vars

--------------------------------------------------------------------------
\* What the claims speak of, computed from the documents themselves

NumDocs == Len(doc_lst)

DocIds == 0..(NumDocs - 1)

DocTokens(d) == tokenize(doc_lst[d + 1])

DocTerms(d) == ToSet(DocTokens(d))

Distinct(docs) == \A i, j \in 1..Len(docs) : i # j => docs[i] # docs[j]

RECURSIVE SumFn(_)
SumFn(f) ==
  IF DOMAIN f = {} THEN 0
  ELSE LET x == CHOOSE y \in DOMAIN f : TRUE
       IN f[x] + SumFn([y \in (DOMAIN f) \ {x} |-> f[y]])

ScoreOf(scores, d) == IF HasKey(scores, d) THEN Get(scores, d) ELSE 0

\* x >= y on floats: false as soon as one of them is nan.
ScoreGE(x, y) ==
  /\ ScoreKind(x) # "nan"
  /\ ScoreKind(y) # "nan"
  /\ ~ScoreLT(x, y)

FreshDocInvIdx == build_doc_inverted_index(doc_lst)

FreshTokenInvIdx == build_token_inverted_index(doc_lst, FreshDocInvIdx, set_order)

FreshInvIdx == build_token_inverted_index_with_freq(doc_lst, FreshDocInvIdx, set_order)

FreshIdf == compute_idf(FreshInvIdx, NumDocs, idf_params[1], idf_params[2])

FreshDocNorms == compute_doc_norms(FreshInvIdx, FreshIdf, NumDocs)

--------------------------------------------------------------------------
\* C1: with pairwise distinct texts, boolean_search on the index built from
\* the collection returns exactly the ids of the documents that contain every
\* token of the query, each id once, at most n ids; a query token that occurs
\* in no document gives the empty result, a query without tokens gives all ids.
C1_BooleanSearchIsAnd ==
  (op = "boolean_search" /\ Distinct(doc_lst)) =>
    LET toks == ToSet(tokenize(query))
    IN /\ ToSet(ids) = {d \in DocIds : \A t \in toks : t \in DocTerms(d)}
       /\ \A i, j \in 1..Len(ids) : i # j => ids[i] # ids[j]
       /\ Len(ids) <= NumDocs
       /\ (\E t \in toks : \A d \in DocIds : t \notin DocTerms(d)) => ids = << >>
       /\ toks = {} => ToSet(ids) = DocIds

\* A two-term query whose terms are both indexed and that not every document
\* satisfies.
C1_Witness ==
  /\ op = "boolean_search"
  /\ Distinct(doc_lst)
  /\ NumDocs >= 2
  /\ Cardinality(ToSet(tokenize(query))) >= 2
  /\ \A t \in ToSet(tokenize(query)) : HasKey(token_inv_idx, t)
  /\ Len(ids) < NumDocs

\* C2: accumulate_dot_scores returns a score mapping even when a query term
\* of the index has no idf entry; such a term contributes nothing and every
\* other term contributes tf * query_tf * idf^2.
C2_ScorerSkipsPrunedTerms ==
  op = "accumulate_dot_scores" =>
    /\ status = "ok"
    /\ Distinct(doc_lst) =>
         LET qwc == word_counts(query)
         IN \A d \in DocIds :
              ScoreOf(doc_scores, d) =
                SumFn([t \in (DOMAIN qwc) \cap DocTerms(d) \cap Keys(idf) |->
                         (Count(DocTokens(d), t) * qwc[t])
                         * (Get(idf, t) * Get(idf, t))])

\* C3: in the inverted index every posting list is strictly ascending in the
\* document id, and every listed term frequency is at least 1 and is the
\* count of the term in that document, also when a text occurs twice.
C3_PostingsSortedUnique ==
  phase = "built" =>
    \A i \in 1..Len(inv_idx) :
      LET term == inv_idx[i][1]
          postings == inv_idx[i][2]
      IN /\ \A j \in 1..(Len(postings) - 1) : postings[j][1] < postings[j + 1][1]
         /\ \A j \in 1..Len(postings) :
              /\ postings[j][2] >= 1
              /\ postings[j][2] = Count(DocTokens(postings[j][1]), term)

\* C4: index_search returns one entry for each document whose numerator is
\* nonzero, none for any other document, in non-increasing order of score.
C4_RankingHoldsNonzeroNumerators ==
  (op = "index_search" /\ status = "ok") =>
    LET tokens == tokenize(lower(query))
        num_vals == accumulate_dot_scores([tok \in ToSet(tokens) |-> Count(tokens, tok)],
                                          inv_idx, idf).scores
    IN /\ {results[k].doc : k \in 1..Len(results)}
            = {d \in DocIds : ScoreOf(num_vals, d) # 0}
       /\ \A j, k \in 1..Len(results) : j # k => results[j].doc # results[k].doc
       /\ \A k \in 1..(Len(results) - 1) :
            ScoreGE(results[k].score, results[k + 1].score)

\* C5: whenever index_search computes a score, its denominator
\* query_norm * doc_norms[doc] is nonzero (the code has no fallback score).
C5_NoZeroDenominator ==
  (op = "index_search" /\ status = "ok") =>
    \A k \in 1..Len(results) :
      results[k].score.qn2 # 0 /\ results[k].score.dn2 # 0

\* C6: for a non-empty collection the idf table get_doc_rankings builds with
\* compute_idf(index, N, 0, 1) has an entry for every term of the index (here:
\* for every indexed term the query uses), and get_doc_rankings completes and
\* returns at most top_n ids.
C6_NoPruningInGetDocRankings ==
  (op = "get_doc_rankings" /\ NumDocs >= 1) =>
    /\ \A t \in ToSet(tokenize(query)) \cap Keys(FreshInvIdx) :
         HasKey(compute_idf(FreshInvIdx, NumDocs, 0, <<1, 1>>), t)
    /\ status = "ok"
    /\ Len(ids) <= top_n

\* One more occurrence of term t at the end of document d.
AddOccurrence(docs, d, t) == [docs EXCEPT ![d + 1] = @ \o <<" ">> \o t]

\* accumulate_dot_scores for query q on the index and idf table built from docs.
ScoresOn(docs, q) ==
  LET order == CHOOSE f \in SetOrderings(docs) : TRUE
      index == build_token_inverted_index_with_freq(docs, build_doc_inverted_index(docs),
                                                    order)
      idf_tab == compute_idf(index, Len(docs), idf_params[1], idf_params[2])
  IN accumulate_dot_scores(word_counts(q), index, idf_tab)

\* C7: adding one occurrence of a query term to a document never lowers that
\* document's dot-product score for the query (stated for a document that has
\* a score, texts distinct before and after).
C7_ScoreMonotone ==
  (op = "accumulate_dot_scores" /\ status = "ok" /\ Distinct(doc_lst)) =>
    \A d \in DocIds : \A t \in DOMAIN word_counts(query) :
      LET docs2 == AddOccurrence(doc_lst, d, t)
          after == ScoresOn(docs2, query)
      IN (HasKey(doc_scores, d) /\ Distinct(docs2)) =>
           /\ after.status = "ok"
           /\ ScoreOf(after.scores, d) >= ScoreOf(doc_scores, d)

\* Document e holds a strict subset of the terms of document d, each as often.
StrictSubsetAtEqualFrequency(e, d) ==
  /\ DocTerms(e) \subseteq DocTerms(d)
  /\ DocTerms(e) # DocTerms(d)
  /\ \A t \in DocTerms(e) : Count(DocTokens(e), t) = Count(DocTokens(d), t)

EntryOf(d) == results[CHOOSE k \in 1..Len(results) : results[k].doc = d]

HasEntry(d) == \E k \in 1..Len(results) : results[k].doc = d

\* C8: with the text of document d as query, the score of d is at least the
\* score of every other document that holds a strict subset of the query's
\* terms at equal frequency.
C8_SelfSimilarityBound ==
  (op = "index_search" /\ status = "ok" /\ Distinct(doc_lst)) =>
    \A d, e \in DocIds :
      (d # e /\ query = doc_lst[d + 1] /\ StrictSubsetAtEqualFrequency(e, d)) =>
        /\ HasEntry(d)
        /\ HasEntry(e) => ScoreGE(EntryOf(d).score, EntryOf(e).score)

\* C9: once the index is built, no query operation changes the boolean index,
\* the inverted index, the idf table or the document norms, and the result a
\* caller holds is the result of that query on the freshly built index.
C9_QueriesLeaveIndexUntouched ==
  phase = "built" =>
    /\ token_inv_idx = FreshTokenInvIdx
    /\ inv_idx = FreshInvIdx
    /\ idf = FreshIdf
    /\ doc_norms = FreshDocNorms
    /\ op = "boolean_search" => ids = boolean_search(query, FreshTokenInvIdx, NumDocs)
    /\ op = "accumulate_dot_scores" =>
         LET r == accumulate_dot_scores(word_counts(query), FreshInvIdx, FreshIdf)
         IN status = r.status /\ doc_scores = r.scores
    /\ op = "index_search" =>
         LET r == index_search(query, FreshInvIdx, FreshIdf, FreshDocNorms)
         IN status = r.status /\ results = r.results /\ query_norm_m = r.query_norm_m

\* A ranking of two documents is held by the caller.
C9_Witness ==
  /\ phase = "built"
  /\ op = "index_search"
  /\ status = "ok"
  /\ Len(results) >= 2

\* C10: query_norm_m is the sum over the distinct query terms that have an idf
\* entry, each counted once, of (idf[t] * freq[t])^2.
C10_QueryNormOncePerTerm ==
  (op = "index_search" /\ status = "ok") =>
    LET tokens == tokenize(lower(query))
    IN query_norm_m =
         SumFn([t \in ToSet(tokens) \cap Keys(idf) |->
                  (Get(idf, t) * Count(tokens, t)) * (Get(idf, t) * Count(tokens, t))])

====
